---------------------------- MODULE Spec2Model ----------------------------
(***************************************************************************)
(* A model of crypto_narrative_bot.py: the daily trade session             *)
(* (run_daily_trade), the price fetch with retries and static fallback     *)
(* (get_token_price), the notifier (send_telegram_alert), the swap         *)
(* executor (execute_trade / approve_token) and the entry point            *)
(* (__main__).                                                             *)
(*                                                                         *)
(* All money values of the program are decimal.Decimal values computed in  *)
(* Python's default context (28 significant digits, ROUND_HALF_EVEN).      *)
(* They are modelled digit for digit: a Decimal is a record                *)
(*   [sign |-> 0 or 1, int |-> coefficient, exp |-> exponent]              *)
(* and the coefficient is an unbounded natural number kept as a sequence   *)
(* of base-10000 limbs, least significant first, without leading zero      *)
(* limbs (<<>> is 0).                                                      *)
(***************************************************************************)
EXTENDS Integers, Sequences, FiniteSets

(***************************************************************************)
(* Natural numbers of any size (the coefficients of Decimal values).       *)
(***************************************************************************)
RECURSIVE BStrip(_)
BStrip(a) ==
    IF a = <<>> THEN a
    ELSE IF a[Len(a)] = 0 THEN BStrip(SubSeq(a, 1, Len(a) - 1)) ELSE a

RECURSIVE BAddC(_, _, _)
BAddC(a, b, c) ==
    IF a = <<>> /\ b = <<>> THEN (IF c = 0 THEN <<>> ELSE <<c>>)
    ELSE LET x == (IF a = <<>> THEN 0 ELSE Head(a))
                  + (IF b = <<>> THEN 0 ELSE Head(b)) + c
             ta == IF a = <<>> THEN a ELSE Tail(a)
             tb == IF b = <<>> THEN b ELSE Tail(b)
         IN  <<x % 10000>> \o BAddC(ta, tb, x \div 10000)

BAdd(a, b) == BAddC(a, b, 0)

\* a - b for a >= b, limb by limb with a borrow.
RECURSIVE BSubC(_, _, _)
BSubC(a, b, c) ==
    IF a = <<>> THEN <<>>
    ELSE LET x == Head(a) - (IF b = <<>> THEN 0 ELSE Head(b)) - c
             tb == IF b = <<>> THEN b ELSE Tail(b)
         IN  IF x < 0 THEN <<x + 10000>> \o BSubC(Tail(a), tb, 1)
             ELSE <<x>> \o BSubC(Tail(a), tb, 0)

BSub(a, b) == BStrip(BSubC(a, b, 0))

\* -1, 0, 1 as a < b, a = b, a > b.
RECURSIVE BCmpFrom(_, _, _)
BCmpFrom(a, b, i) ==
    IF i = 0 THEN 0
    ELSE IF a[i] < b[i] THEN -1
    ELSE IF a[i] > b[i] THEN 1
    ELSE BCmpFrom(a, b, i - 1)

BCmp(a, b) ==
    IF Len(a) < Len(b) THEN -1
    ELSE IF Len(a) > Len(b) THEN 1
    ELSE BCmpFrom(a, b, Len(a))

\* a * k + c for 0 <= k < 10000.
RECURSIVE BMulSmallC(_, _, _)
BMulSmallC(a, k, c) ==
    IF a = <<>> THEN (IF c = 0 THEN <<>> ELSE <<c>>)
    ELSE LET x == Head(a) * k + c
         IN  <<x % 10000>> \o BMulSmallC(Tail(a), k, x \div 10000)

BMulSmall(a, k) == IF k = 0 THEN <<>> ELSE BMulSmallC(a, k, 0)

RECURSIVE BMul(_, _)
BMul(a, b) ==
    IF a = <<>> \/ b = <<>> THEN <<>>
    ELSE BAdd(BMulSmall(a, Head(b)), BStrip(<<0>> \o BMul(a, Tail(b))))

\* [q, r] with a = q * d + r, 0 <= r < d, for 0 < d < 10000.
RECURSIVE BDivSmallFrom(_, _, _, _)
BDivSmallFrom(a, d, i, r) ==
    IF i = 0 THEN [q |-> <<>>, r |-> r]
    ELSE LET x    == r * 10000 + a[i]
             rest == BDivSmallFrom(a, d, i - 1, x % d)
         IN  [q |-> rest.q \o <<x \div d>>, r |-> rest.r]

BDivSmall(a, d) ==
    LET res == BDivSmallFrom(a, d, Len(a), 0)
    IN  [q |-> BStrip(res.q), r |-> res.r]

\* The largest q in lo..hi with b * q <= cur (b * lo <= cur is given).
RECURSIVE BQuotLimb(_, _, _, _)
BQuotLimb(cur, b, lo, hi) ==
    IF lo = hi THEN lo
    ELSE LET mid == (lo + hi + 1) \div 2
         IN  IF BCmp(BMulSmall(b, mid), cur) <= 0
             THEN BQuotLimb(cur, b, mid, hi)
             ELSE BQuotLimb(cur, b, lo, mid - 1)

\* [q, r] with a = q * b + r, 0 <= r < b, for b > 0: long division, one
\* limb of a at a time from the most significant.  The quotient limb lies
\* between the quotients of the leading limbs by b's leading limb plus one
\* and by b's leading limb.
RECURSIVE BDivModFrom(_, _, _, _)
BDivModFrom(a, b, i, rem) ==
    IF i = 0 THEN [q |-> <<>>, r |-> rem]
    ELSE LET cur  == BStrip(<<a[i]>> \o rem)
             n    == Len(b)
             ct   == IF Len(cur) > n THEN cur[n + 1] * 10000 + cur[n] ELSE cur[n]
             top  == ct \div b[n]
             ql   == IF Len(cur) < n THEN 0
                     ELSE BQuotLimb(cur, b, ct \div (b[n] + 1),
                                    IF top > 9999 THEN 9999 ELSE top)
             nrem == IF ql = 0 THEN cur ELSE BSub(cur, BMulSmall(b, ql))
             rest == BDivModFrom(a, b, i - 1, nrem)
         IN  [q |-> rest.q \o <<ql>>, r |-> rest.r]

BDivMod(a, b) ==
    LET res == BDivModFrom(a, b, Len(a), <<>>)
    IN  [q |-> BStrip(res.q), r |-> res.r]

Pow10Small(r) == IF r = 0 THEN 1 ELSE IF r = 1 THEN 10 ELSE IF r = 2 THEN 100 ELSE 1000

SmallDigits(x) == IF x < 10 THEN 1 ELSE IF x < 100 THEN 2 ELSE IF x < 1000 THEN 3 ELSE 4

\* The number of decimal digits of a (len(str(a)) in Python); 1 for 0.
BDigits(a) == IF a = <<>> THEN 1 ELSE 4 * (Len(a) - 1) + SmallDigits(a[Len(a)])

\* a * 10^n.
BShift(a, n) ==
    IF a = <<>> THEN a
    ELSE [i \in 1..(n \div 4) |-> 0] \o BMulSmall(a, Pow10Small(n % 4))

\* 10^n.
BPow10(n) == BShift(<<1>>, n)

\* [q, r] with a = q * 10^n + r, 0 <= r < 10^n.
BSplit10(a, n) ==
    LET k  == n \div 4
        lo == IF k >= Len(a) THEN a ELSE SubSeq(a, 1, k)
        hi == IF k >= Len(a) THEN <<>> ELSE SubSeq(a, k + 1, Len(a))
        d  == BDivSmall(hi, Pow10Small(n % 4))
    IN  [q |-> d.q,
         r |-> BStrip(lo \o <<d.r>>)]

BIsOdd(a) == a # <<>> /\ a[1] % 2 = 1

(***************************************************************************)
(* decimal.Decimal in the default context.                                 *)
(***************************************************************************)
\* getcontext().prec of a Python process that never changes its context.
Prec == 28

Dec(sign, int, exp) == [sign |-> sign, int |-> int, exp |-> exp]

DecIsZero(d) == d.int = <<>>

\* Decimal._fix: round a result to Prec significant digits, half to even.
\* (Emax and Emin are out of reach of the exponents the program produces.)
DecFix(d) ==
    LET n == BDigits(d.int)
    IN  IF n <= Prec THEN d
        ELSE LET k    == n - Prec
                 s    == BSplit10(d.int, k)
                 half == BCmp(BMulSmall(s.r, 2), BPow10(k))
                 up   == half > 0 \/ (half = 0 /\ BIsOdd(s.q))
                 q    == IF up THEN BAdd(s.q, <<1>>) ELSE s.q
             IN  IF BDigits(q) > Prec
                 THEN Dec(d.sign, BSplit10(q, 1).q, d.exp + k + 1)
                 ELSE Dec(d.sign, q, d.exp + k)

\* Whether rounding d to Prec digits would drop a nonzero digit (the
\* context's Inexact signal).
DecInexact(d) ==
    LET n == BDigits(d.int)
    IN  n > Prec /\ BSplit10(d.int, n - Prec).r # <<>>

\* Decimal.__neg__ of a nonzero value (and of a zero, whose sign the program
\* never reads).
DecNeg(d) == Dec(IF DecIsZero(d) THEN 0 ELSE 1 - d.sign, d.int, d.exp)

\* The coefficient of d at the exponent e <= d.exp.
DecCoeffAt(d, e) == BShift(d.int, d.exp - e)

\* Decimal._cmp: -1, 0, 1.
DecCmp(a, b) ==
    LET e  == IF a.exp < b.exp THEN a.exp ELSE b.exp
        m  == BCmp(DecCoeffAt(a, e), DecCoeffAt(b, e))
        za == DecIsZero(a)
        zb == DecIsZero(b)
    IN  IF za /\ zb THEN 0
        ELSE IF za THEN (IF b.sign = 0 THEN -1 ELSE 1)
        ELSE IF zb THEN (IF a.sign = 0 THEN 1 ELSE -1)
        ELSE IF a.sign # b.sign THEN (IF a.sign = 0 THEN 1 ELSE -1)
        ELSE IF a.sign = 0 THEN m ELSE -m

DecLt(a, b) == DecCmp(a, b) < 0
DecEq(a, b) == DecCmp(a, b) = 0
DecLe(a, b) == DecCmp(a, b) <= 0

\* The exact sum, before rounding: the exponent is the smaller one.
DecAddExact(a, b) ==
    LET e  == IF a.exp < b.exp THEN a.exp ELSE b.exp
        ca == DecCoeffAt(a, e)
        cb == DecCoeffAt(b, e)
        m  == BCmp(ca, cb)
    IN  IF a.sign = b.sign THEN Dec(a.sign, BAdd(ca, cb), e)
        ELSE IF m = 0 THEN Dec(0, <<>>, e)
        ELSE IF m > 0 THEN Dec(a.sign, BSub(ca, cb), e)
        ELSE Dec(b.sign, BSub(cb, ca), e)

\* Decimal.__add__, __sub__, __mul__.
DecAdd(a, b) == DecFix(DecAddExact(a, b))
DecSub(a, b) == DecAdd(a, Dec(1 - b.sign, b.int, b.exp))
DecMulExact(a, b) ==
    Dec(IF a.sign = b.sign THEN 0 ELSE 1, BMul(a.int, b.int), a.exp + b.exp)
DecMul(a, b) == DecFix(DecMulExact(a, b))

\* The exact-quotient step of __truediv__: drop trailing zeros of the
\* coefficient while the exponent is below the ideal exponent.
RECURSIVE DecStripTo(_, _)
DecStripTo(d, ideal) ==
    IF d.exp < ideal /\ d.int # <<>> /\ d.int[1] % 10 = 0
    THEN DecStripTo(Dec(d.sign, BSplit10(d.int, 1).q, d.exp + 1), ideal)
    ELSE d

\* Decimal.__truediv__ for b # 0 (a zero divisor raises: see DivRaises).
DecDiv(a, b) ==
    LET sign == IF a.sign = b.sign THEN 0 ELSE 1
    IN  IF DecIsZero(a) THEN Dec(sign, <<>>, a.exp - b.exp)
        ELSE LET shift == BDigits(b.int) - BDigits(a.int) + Prec + 1
                 dm    == IF shift >= 0
                          THEN BDivMod(BShift(a.int, shift), b.int)
                          ELSE BDivMod(a.int, BShift(b.int, -shift))
                 exp   == a.exp - b.exp - shift
             IN  IF dm.r # <<>>
                 THEN DecFix(Dec(sign,
                                 IF dm.q = <<>> \/ dm.q[1] % 5 = 0
                                 THEN BAdd(dm.q, <<1>>) ELSE dm.q,
                                 exp))
                 ELSE DecFix(DecStripTo(Dec(sign, dm.q, exp), a.exp - b.exp))

\* Whether the quotient a / b is not a / b exactly (Inexact).
DecDivInexact(a, b) ==
    ~DecIsZero(a) /\
    LET shift == BDigits(b.int) - BDigits(a.int) + Prec + 1
        dm    == IF shift >= 0
                 THEN BDivMod(BShift(a.int, shift), b.int)
                 ELSE BDivMod(a.int, BShift(b.int, -shift))
    IN  dm.r # <<>> \/ DecInexact(Dec(0, dm.q, 0))

\* A zero divisor raises decimal.DivisionByZero (0 / 0: InvalidOperation).
DivRaises(a, b) == DecIsZero(b)

\* Python's min(x, y) and max(x, y): x unless y is strictly better.
PyMin(x, y) == IF DecLt(y, x) THEN y ELSE x
PyMax(x, y) == IF DecLt(x, y) THEN y ELSE x

\* format(d, ".2f"): Decimal._rescale(-2, ROUND_HALF_EVEN).
DecQuantize2(d) ==
    IF d.exp >= -2 THEN Dec(d.sign, BShift(d.int, d.exp + 2), -2)
    ELSE LET k    == -2 - d.exp
             s    == BSplit10(d.int, k)
             half == BCmp(BMulSmall(s.r, 2), BPow10(k))
             up   == half > 0 \/ (half = 0 /\ BIsOdd(s.q))
         IN  Dec(d.sign, IF up THEN BAdd(s.q, <<1>>) ELSE s.q, -2)

\* A literal: the limbs of the coefficient written most significant first.
RECURSIVE Reverse(_)
Reverse(s) == IF s = <<>> THEN s ELSE Reverse(Tail(s)) \o <<Head(s)>>
Lit(sign, limbs, exp) == Dec(sign, BStrip(Reverse(limbs)), exp)

(***************************************************************************)
(* The program's constants and tables.                                     *)
(***************************************************************************)
Zero == Lit(0, <<>>, 0)              \* Decimal("0")
One == Lit(0, <<1>>, 0)              \* the int 1 of lines 167-168, as a Decimal
START_CAPITAL == Lit(0, <<50>>, 0)   \* Decimal("50")
TP_PERCENT == Lit(0, <<25>>, -2)     \* Decimal("0.25")
SL_PERCENT == Lit(0, <<5>>, -2)      \* Decimal("0.05")
DAILY_TARGET == Lit(0, <<20>>, -2)   \* Decimal("0.20")
SizeFraction == Lit(0, <<2>>, -1)    \* Decimal("0.2") of line 161
MaxTrades == 5
Retries == 3

\* A variant of the registry: a token added to symbol_to_address and not to
\* ids.
TradeSymbolsExtended == {"ARB", "MAGIC", "GMX", "LINK"}

\* The keys of symbol_to_address, as the module defines it.
TradeSymbols == {"ARB", "MAGIC", "GMX"}

\* The keys of ids (and of fallback_prices) in get_token_price.
ids == {"ARB", "MAGIC", "GMX", "USDT"}

fallback_prices(sym) ==
    IF sym = "ARB" THEN Lit(0, <<75>>, -2)
    ELSE IF sym = "MAGIC" THEN Lit(0, <<45>>, -2)
    ELSE IF sym = "GMX" THEN Lit(0, <<30>>, 0)
    ELSE One

(***************************************************************************)
(* The inputs: the process environment and what the price feed answers.    *)
(***************************************************************************)
\* The environments tried.  CAPITAL is unset (the default "50"), the "47.55"
\* that a session prints after five stop-losses from 50, a value of 28
\* significant digits, zero, or negative; RESET=1 makes CAPITAL unread;
\* TELEGRAM says whether both Telegram credentials are set.
CapitalUnset == [set |-> FALSE, value |-> Zero]
CapitalSet(d) == [set |-> TRUE, value |-> d]
Environments ==
    { [RESET |-> FALSE, CAPITAL |-> CapitalUnset, TELEGRAM |-> FALSE],
      [RESET |-> TRUE, CAPITAL |-> CapitalSet(Lit(0, <<4755>>, -2)), TELEGRAM |-> TRUE],
      [RESET |-> FALSE, CAPITAL |-> CapitalSet(Lit(0, <<4755>>, -2)), TELEGRAM |-> TRUE],
      [RESET |-> FALSE,
       CAPITAL |-> CapitalSet(Lit(0, <<7777, 7777, 7777, 7777, 7777, 7777, 7777>>, -28)),
       TELEGRAM |-> FALSE],
      [RESET |-> FALSE, CAPITAL |-> CapitalSet(Zero), TELEGRAM |-> TRUE],
      [RESET |-> FALSE, CAPITAL |-> CapitalSet(Lit(1, <<5>>, 0)), TELEGRAM |-> FALSE] }

\* Prices a feed response can carry: 100, a price of 16 significant digits
\* (81.92798378357413) and zero.
LivePrices ==
    { Lit(0, <<100>>, 0),
      Lit(0, <<8192, 7983, 7835, 7413>>, -14),
      Zero }

\* What one request of get_token_price can meet instead of a price: an
\* exception (connection error, timeout, a body that is not JSON, a value
\* Decimal cannot read) or a body without the token's key.
BadResponses == {"exception", "missing"}

(***************************************************************************)
(* The state.                                                              *)
(***************************************************************************)
VARIABLES
    pc,                \* where the process is
    environ,           \* os.environ: RESET, CAPITAL, the Telegram credentials
    symbol_to_address, \* the keys of the module's symbol_to_address
    capital, earned_today, trades_today, goal,      \* run_daily_trade
    symbol, trade_amt, entry_price, result, profit, \* one iteration's locals
    attempt,           \* get_token_price's loop variable
    iterations,        \* loop bodies entered so far
    skips,             \* of which ended in the except ValueError branch
    outcomes,          \* the results drawn at line 174, in order
    approvals,         \* allowance grants confirmed on chain
    swaps,             \* swaps confirmed on chain
    alerts,            \* messages posted to Telegram
    output,            \* the ::set-output capital line, once printed
    exc                \* the exception that ended the process, if any

vars == << pc, environ, symbol_to_address, capital, earned_today, trades_today,
           goal, symbol, trade_amt, entry_price, result, profit, attempt,
           iterations, skips, outcomes, approvals, swaps, alerts, output, exc >>

session == << capital, earned_today, trades_today, goal >>
locals == << symbol, trade_amt, entry_price, result, profit, attempt >>
world == << approvals, swaps, alerts, output >>
config == << environ, symbol_to_address >>

NoOutput == [printed |-> FALSE, value |-> Zero]

InitWith(registry, environments) ==
    /\ pc = "main"
    /\ environ \in environments
    /\ symbol_to_address = registry
    /\ capital = Zero /\ earned_today = Zero /\ trades_today = 0 /\ goal = Zero
    /\ symbol = "" /\ trade_amt = Zero /\ entry_price = Zero
    /\ result = "" /\ profit = Zero /\ attempt = 0
    /\ iterations = 0 /\ skips = 0 /\ outcomes = << >>
    /\ approvals = 0 /\ swaps = 0 /\ alerts = 0
    /\ output = NoOutput
    /\ exc = "none"

Init == InitWith(TradeSymbols, Environments)

\* The locals of an iteration are dead at the loop head (each is assigned
\* again before it is read) and gone when the process ends: they are cleared
\* there.
ClearLocals ==
    /\ symbol' = "" /\ trade_amt' = Zero /\ entry_price' = Zero
    /\ result' = "" /\ profit' = Zero /\ attempt' = 0

\* An uncaught exception: the traceback is printed and the process ends.
\* capital, earned_today and trades_today keep the values they had when it
\* was raised.
Abort(e) ==
    /\ pc' = "aborted"
    /\ exc' = e
    /\ ClearLocals

(***************************************************************************)
(* __main__ and the head of run_daily_trade.                               *)
(***************************************************************************)
\* Line 187: the starting capital.
StartCapital(env) ==
    IF env.RESET THEN START_CAPITAL
    ELSE IF env.CAPITAL.set THEN env.CAPITAL.value
    ELSE START_CAPITAL

\* A variant of the goal: a quarter of the capital.
GoalOfQuarter(cap) == DecMul(cap, Lit(0, <<25>>, -2))

\* Line 157.
GoalOf(cap) == DecMul(cap, DAILY_TARGET)

\* Lines 187-188 and 155-157.
Main ==
    /\ pc = "main"
    /\ capital' = StartCapital(environ)
    /\ earned_today' = Zero
    /\ trades_today' = 0
    /\ goal' = GoalOf(StartCapital(environ))
    /\ pc' = "while"
    /\ UNCHANGED << config, locals, iterations, skips, outcomes, world, exc >>


\* Other loop conditions, which the properties below tell apart from line
\* 159: a cap that lets a sixth trade start, a goal test that also continues
\* on equality, and a cap one trade too high.
LoopConditionSixth(earned, g, trades) == DecLt(earned, g) /\ trades <= MaxTrades
LoopConditionOrEqual(earned, g, trades) == DecLe(earned, g) /\ trades < MaxTrades
LoopConditionLate(earned, g, trades) == DecLt(earned, g) /\ trades < MaxTrades + 1

\* Line 159: the loop condition.
LoopCondition(earned, g, trades) == DecLt(earned, g) /\ trades < MaxTrades

WhileEnter ==
    /\ pc = "while"
    /\ LoopCondition(earned_today, goal, trades_today)
    /\ pc' = "select"
    /\ UNCHANGED << config, session, locals, iterations, skips, outcomes, world, exc >>

WhileExit ==
    /\ pc = "while"
    /\ ~LoopCondition(earned_today, goal, trades_today)
    /\ pc' = "return"
    /\ UNCHANGED << config, session, locals, iterations, skips, outcomes, world, exc >>


\* A variant of the sizing: max for min.
TradeAmountMax(cap) == PyMax(DecMul(cap, SizeFraction), cap)

\* Line 161.
TradeAmount(cap) == PyMin(DecMul(cap, SizeFraction), cap)

\* Lines 160-161, and the call of get_token_price at line 163.
Select ==
    /\ pc = "select"
    /\ \E sym \in symbol_to_address : symbol' = sym
    /\ trade_amt' = TradeAmount(capital)
    /\ attempt' = 0
    /\ iterations' = iterations + 1
    /\ pc' = "get_token_price"
    /\ UNCHANGED << config, session, entry_price, result, profit, skips, outcomes, world, exc >>

\* Lines 182, 188, 191: the capital is returned and printed with two decimals.
Finish ==
    /\ pc = "return"
    /\ output' = [printed |-> TRUE, value |-> DecQuantize2(capital)]
    /\ pc' = "done"
    /\ UNCHANGED << config, session, locals, iterations, skips, outcomes,
                    approvals, swaps, alerts, exc >>

(***************************************************************************)
(* get_token_price, as called at line 163.                                 *)
(***************************************************************************)
\* Lines 72-74: the symbol has no price-feed identifier.
Unsupported(sym) == sym \notin ids

\* A variant of the retry: a failed request raises out of get_token_price.
FetchRetryRaises ==
    /\ pc = "get_token_price"
    /\ ~Unsupported(symbol)
    /\ attempt < Retries
    /\ Abort("get_token_price")
    /\ UNCHANGED << config, session, iterations, skips, outcomes, world >>

\* Lines 76-90: a request that raises or whose body lacks the token: the
\* function sleeps and goes on to the next attempt.
FetchRetry ==
    /\ pc = "get_token_price"
    /\ ~Unsupported(symbol)
    /\ attempt < Retries
    /\ \E bad \in BadResponses : attempt' = attempt + 1
    /\ UNCHANGED << pc, config, session, symbol, trade_amt, entry_price, result,
                    profit, iterations, skips, outcomes, world, exc >>

\* Lines 79-86: a request answered with a price.
FetchPrice ==
    /\ pc = "get_token_price"
    /\ ~Unsupported(symbol)
    /\ attempt < Retries
    /\ \E p \in LivePrices : entry_price' = p
    /\ pc' = "buy_alert"
    /\ UNCHANGED << config, session, symbol, trade_amt, result, profit, attempt,
                    iterations, skips, outcomes, world, exc >>

\* A variant of the fallback: no price instead of the table's.
PriceFallbackZero ==
    /\ pc = "get_token_price"
    /\ ~Unsupported(symbol)
    /\ attempt = Retries
    /\ entry_price' = Zero
    /\ pc' = "buy_alert"
    /\ UNCHANGED << config, session, symbol, trade_amt, result, profit, attempt,
                    iterations, skips, outcomes, world, exc >>

\* Lines 92-99: every attempt failed.
PriceFallback ==
    /\ pc = "get_token_price"
    /\ ~Unsupported(symbol)
    /\ attempt = Retries
    /\ entry_price' = fallback_prices(symbol)
    /\ pc' = "buy_alert"
    /\ UNCHANGED << config, session, symbol, trade_amt, result, profit, attempt,
                    iterations, skips, outcomes, world, exc >>

\* Lines 72-74 and 164-165: get_token_price raises ValueError for a symbol
\* that has no feed identifier, and the loop goes back to its head.
MaxSkips == 2


\* A variant of the skip: the skipped iteration takes a trade slot.
PriceUnsupportedCounted ==
    /\ pc = "get_token_price"
    /\ Unsupported(symbol)
    /\ skips < MaxSkips
    /\ skips' = skips + 1
    /\ trades_today' = trades_today + 1
    /\ pc' = "while"
    /\ ClearLocals
    /\ UNCHANGED << config, capital, earned_today, goal, iterations, outcomes,
                    world, exc >>

PriceUnsupported ==
    /\ pc = "get_token_price"
    /\ Unsupported(symbol)
    /\ skips < MaxSkips
    /\ skips' = skips + 1
    /\ pc' = "while"
    /\ ClearLocals
    /\ UNCHANGED << config, session, iterations, outcomes, world, exc >>

(***************************************************************************)
(* send_telegram_alert (lines 102-107).  Without both credentials it does  *)
(* nothing.  With them it posts the message: the post either returns       *)
(* (whatever the HTTP status) or raises, and nothing catches what it       *)
(* raises.                                                                 *)
(***************************************************************************)
AlertReturns(next) ==
    /\ alerts' = IF environ.TELEGRAM THEN alerts + 1 ELSE alerts
    /\ pc' = next

AlertRaises ==
    /\ environ.TELEGRAM
    /\ Abort("send_telegram_alert")

\* Line 170.
BuyAlert ==
    /\ pc = "buy_alert"
    /\ AlertReturns("execute_trade")
    /\ UNCHANGED << config, session, locals, iterations, skips, outcomes,
                    approvals, swaps, output, exc >>

BuyAlertRaises ==
    /\ pc = "buy_alert"
    /\ AlertRaises
    /\ UNCHANGED << config, session, iterations, skips, outcomes, world >>

(***************************************************************************)
(* execute_trade (lines 125-151), called at line 171.                      *)
(***************************************************************************)
\* A variant of the grant: execute_trade goes on without it.
ApproveUnconfirmed ==
    /\ pc = "execute_trade"
    /\ pc' = "build_swap"
    /\ UNCHANGED << config, session, locals, iterations, skips, outcomes, world, exc >>

\* Line 128, approve_token: the allowance grant is sent and its receipt
\* awaited.
Approve ==
    /\ pc = "execute_trade"
    /\ approvals' = approvals + 1
    /\ pc' = "build_swap"
    /\ UNCHANGED << config, session, locals, iterations, skips, outcomes,
                    swaps, alerts, output, exc >>

ApproveRaises ==
    /\ pc = "execute_trade"
    /\ Abort("approve_token")
    /\ UNCHANGED << config, session, iterations, skips, outcomes, world >>

\* Lines 130-148: the swap transaction is built and signed.
BuildSwap ==
    /\ pc = "build_swap"
    /\ pc' = "send_swap"
    /\ UNCHANGED << config, session, locals, iterations, skips, outcomes, world, exc >>

BuildSwapRaises ==
    /\ pc = "build_swap"
    /\ Abort("build_transaction")
    /\ UNCHANGED << config, session, iterations, skips, outcomes, world >>

\* Line 149 reads the name "signed", which execute_trade never binds (it
\* binds signed_tx; "signed" is a local of approve_token): NameError, before
\* anything is sent.
SendSwap ==
    /\ pc = "send_swap"
    /\ Abort("NameError")
    /\ UNCHANGED << config, session, iterations, skips, outcomes, world >>

\* The swap execution boundary as the design describes it: the signed swap
\* is submitted and either its confirmation receipt comes back or the call
\* raises.
SendSwapConfirmed ==
    /\ pc = "send_swap"
    /\ swaps' = swaps + 1
    /\ pc' = "resolve"
    /\ UNCHANGED << config, session, locals, iterations, skips, outcomes,
                    approvals, alerts, output, exc >>

SendSwapRaises ==
    /\ pc = "send_swap"
    /\ Abort("sendRawTransaction")
    /\ UNCHANGED << config, session, iterations, skips, outcomes, world >>

(***************************************************************************)
(* The outcome of a trade (lines 167-168 and 174-178).                     *)
(***************************************************************************)
\* A variant of the stop-loss price: the percentage written as 5.
StopLossPriceWhole(entry) == DecMul(entry, DecSub(One, Lit(0, <<5>>, 0)))

\* Lines 167-168.
TakeProfitPrice(entry) == DecMul(entry, DecAdd(One, TP_PERCENT))
StopLossPrice(entry) == DecMul(entry, DecSub(One, SL_PERCENT))


\* A variant of the profit: the division by the entry price left out.
ProfitUndivided(entry, amt, res) ==
    DecMul(DecSub(IF res = "TP" THEN TakeProfitPrice(entry)
                                ELSE StopLossPrice(entry),
                  entry),
           amt)

\* Line 175, for entry # 0.
Profit(entry, amt, res) ==
    DecDiv(DecMul(DecSub(IF res = "TP" THEN TakeProfitPrice(entry)
                                       ELSE StopLossPrice(entry),
                         entry),
                  amt),
           entry)


\* Variants of the update: the signed profit added to earned_today, and the
\* trade counted twice.
EarnedAfterSigned(earned, p) == DecAdd(earned, p)
TradesAfterTwice(trades) == trades + 2

\* Lines 176-178.
CapitalAfter(cap, p) == DecAdd(cap, p)
EarnedAfter(earned, p) == DecAdd(earned, PyMax(p, Zero))
TradesAfter(trades) == trades + 1

\* Lines 172-178.
Resolve ==
    /\ pc = "resolve"
    /\ ~DivRaises(trade_amt, entry_price)
    /\ \E res \in {"TP", "SL"} :
          /\ result' = res
          /\ outcomes' = Append(outcomes, res)
          /\ profit' = Profit(entry_price, trade_amt, res)
    /\ capital' = CapitalAfter(capital, profit')
    /\ earned_today' = EarnedAfter(earned_today, profit')
    /\ trades_today' = TradesAfter(trades_today)
    /\ pc' = "outcome_alert"
    /\ UNCHANGED << config, goal, symbol, trade_amt, entry_price, attempt,
                    iterations, skips, world, exc >>

\* Line 175 with an entry price of zero: the division raises.
ResolveRaises ==
    /\ pc = "resolve"
    /\ DivRaises(trade_amt, entry_price)
    /\ Abort("decimal")
    /\ UNCHANGED << config, session, iterations, skips, outcomes, world >>

\* Line 180, and back to line 159.
OutcomeAlert ==
    /\ pc = "outcome_alert"
    /\ AlertReturns("while")
    /\ ClearLocals
    /\ UNCHANGED << config, session, iterations, skips, outcomes,
                    approvals, swaps, output, exc >>

OutcomeAlertRaises ==
    /\ pc = "outcome_alert"
    /\ AlertRaises
    /\ UNCHANGED << config, session, iterations, skips, outcomes, world >>

(***************************************************************************)
(* The specifications.                                                     *)
(***************************************************************************)
\* What every specification shares: the code up to the submission of the
\* swap, and the return.
Common ==
    \/ Main \/ WhileEnter \/ WhileExit \/ Select
    \/ FetchRetry \/ FetchPrice \/ PriceFallback
    \/ BuyAlert \/ BuyAlertRaises
    \/ Approve \/ ApproveRaises \/ BuildSwap \/ BuildSwapRaises
    \/ Finish

\* The program as it is written: no swap is ever submitted (line 149), so
\* lines 172-180 are never reached.
Next == Common \/ SendSwap

Spec == Init /\ [][Next]_vars

\* The program with a swap executor that can succeed: line 149 submits the
\* transaction signed at line 148.
AfterSwap ==
    \/ SendSwapConfirmed \/ SendSwapRaises
    \/ Resolve \/ ResolveRaises
    \/ OutcomeAlert \/ OutcomeAlertRaises

NextCtl == Common \/ AfterSwap

SpecCtl == Init /\ [][NextCtl]_vars

\* A session is over once the loop has been left or an exception has ended
\* the process.
Terminated == pc \in {"done", "aborted"}

\* The same, with every call returning: the interpreter keeps running the
\* session until it is over.  A step of NextCtl is possible exactly in the
\* states that are not Terminated, so this is WF_vars(NextCtl) written out
\* as []<>(~ENABLED <<NextCtl>>_vars) \/ []<><<NextCtl>>_vars.
FairSpecCtl == SpecCtl /\ ([]<>Terminated \/ []<><<NextCtl>>_vars)

\* The session with a symbol_to_address that holds a symbol get_token_price
\* has no identifier for (the module's own table holds none), started with
\* RESET=1; the skips are counted up to MaxSkips.
NextSkip == NextCtl \/ PriceUnsupported

InitSkip == InitWith(TradeSymbols \cup {"LINK"}, {e \in Environments : e.RESET})

SpecSkip == InitSkip /\ [][NextSkip]_vars

(***************************************************************************)
(* The claims.                                                             *)
(***************************************************************************)
\* Where an iteration stands between its start and the update of line 176.
BeforeUpdate ==
    pc \in {"select", "get_token_price", "buy_alert", "execute_trade",
            "build_swap", "send_swap", "resolve"}

\* Where trade_amt holds the size computed from the current capital.
Sized ==
    pc \in {"get_token_price", "buy_alert", "execute_trade", "build_swap",
            "send_swap", "resolve"}

C5_NotifierAbsorbed == exc # "send_telegram_alert"

\* C6: a session that aborted has printed its capital output, and the value
\* printed is the capital of the trades completed before the abort.
C6_AbortReported ==
    pc = "aborted" => output.printed /\ output.value = DecQuantize2(capital)

\* C7: at every sizing step trade_amt <= capital, and trade_amt is the 20%
\* of capital that capital * Decimal("0.2") computes (capital is > 0 there).
C7_Sizing ==
    Sized => /\ DecLe(trade_amt, capital)
             /\ DecLt(Zero, capital)
             /\ trade_amt = DecMul(capital, Lit(0, <<2>>, -1))

\* C7's case: a size computed from a capital that trades have changed, and
\* one computed from a capital of 28 digits (where the product is rounded).
C7_Witness ==
    /\ Sized
    /\ \/ trades_today > 0
       \/ DecInexact(DecMulExact(capital, SizeFraction))

\* The value the claim gives for a profit: amount x 0.25, or -(amount x 0.05),
\* as Decimal products.
StatedProfit(amt, res) ==
    IF res = "TP" THEN DecMul(amt, Lit(0, <<25>>, -2))
    ELSE DecNeg(DecMul(amt, Lit(0, <<5>>, -2)))

\* Whether a Decimal operation of lines 167-168 and 175 rounds its result.
ProfitRounds(entry, amt, res) ==
    LET target == IF res = "TP" THEN DecMulExact(entry, DecAdd(One, TP_PERCENT))
                  ELSE DecMulExact(entry, DecSub(One, SL_PERCENT))
        diff   == DecAddExact(DecFix(target), DecNeg(entry))
        prod   == DecMulExact(DecFix(diff), amt)
    IN  \/ DecInexact(target) \/ DecInexact(diff) \/ DecInexact(prod)
        \/ DecDivInexact(DecFix(prod), entry)

StatedFallback(sym) ==
    IF sym = "ARB" THEN Lit(0, <<75>>, -2)
    ELSE IF sym = "MAGIC" THEN Lit(0, <<45>>, -2)
    ELSE IF sym = "GMX" THEN Lit(0, <<30>>, 0)
    ELSE Lit(0, <<1>>, 0)

\* C11: a call of get_token_price makes at most 3 requests (attempt counts
\* the failed ones; after 3 no further request is made, failed or answered);
\* when all 3 have failed it returns the symbol's static fallback price, a
\* function of the symbol alone.
C11_FallbackExact ==
    [][(pc = "get_token_price" /\ ~Unsupported(symbol)) =>
          /\ attempt' <= 3
          /\ attempt = 3 => /\ pc' = "buy_alert"
                            /\ entry_price' = StatedFallback(symbol)]_vars

\* C11's case: three failed requests, and GMX priced at its fallback of 30.
C11_Witness ==
    /\ pc = "buy_alert"
    /\ attempt = 3
    /\ symbol = "GMX"
    /\ entry_price = Lit(0, <<30>>, 0)

\* C12: for a supported symbol no step of get_token_price raises: each one
\* either tries again or returns a price to run_daily_trade, and after at
\* most 3 failed requests only the return is left.
C12_PriceNeverRaises ==
    [][(pc = "get_token_price" /\ ~Unsupported(symbol)) =>
          /\ exc' = "none"
          /\ pc' \in {"get_token_price", "buy_alert"}
          /\ pc' = "get_token_price" => attempt' = attempt + 1 /\ attempt' <= 3]_vars

\* C12's case: the call returned a price from the feed after failed requests.
C12_Witness ==
    /\ pc = "buy_alert"
    /\ attempt \in {1, 2}
    /\ exc = "none"
    /\ DecLt(Zero, entry_price)

\* Whether the environment overrides the starting capital with a value < 0.
NegativeCapital ==
    /\ ~environ.RESET
    /\ environ.CAPITAL.set
    /\ DecLt(environ.CAPITAL.value, Zero)

\* C13: a session started with a negative capital override never comes to a
\* normal end.
C13_NegativeCapitalRejected ==
    NegativeCapital => pc \notin {"return", "done"}

\* Line 187 reading back, as CAPITAL, the value that line 191 printed.
Reloaded == StartCapital([RESET |-> FALSE, CAPITAL |-> CapitalSet(output.value),
                          TELEGRAM |-> FALSE])

C17_ExecuteTradeReturns == exc # "NameError"

TakeProfits == Cardinality({i \in 1..Len(outcomes) : outcomes[i] = "TP"})

=============================================================================
